---- MODULE Spec2Model ----
(***************************************************************************)
(* Buddy page allocator of src/buddy.c: the free-list heads, the links     *)
(* embedded in the first bytes of every page, the page metadata table and  *)
(* the five public operations, modelled on a scaled-down pool.             *)
(*                                                                         *)
(* Pointers are byte addresses; the links of a block are the two cells     *)
(* page_mem[i].next and .prev of its head page i.  Every link that is read *)
(* was stored by an earlier push, so the content the caller's region has   *)
(* at init_page is never observed and is taken to be NULL.  A store to a   *)
(* page outside [0, total_pages) leaves the caller's region: the call ends *)
(* with err = "UB" and the run stops there.  query_page_counts on a cyclic *)
(* list does not return: err = "HANG", and the run stops there too.        *)
(***************************************************************************)
EXTENDS Integers, Sequences, FiniteSets, TLC

\* Scaled-down sizes of the pool (buddy.c: MAX_RANK 16, MAX_PAGES 32768).
MAX_RANK == 3
MAX_PAGES == 4

\* How many calls are followed after return_pages first accepts an address
\* the caller does not hold; up to that point runs are not limited.
MaxAftermath == 3

\* How many calls a run of SpecLong makes after init_page.
MaxCalls == 18

PAGE_SIZE == 4096
NULL == 0

\* The page-aligned base addresses the caller hands to init_page.
Bases == {2 * PAGE_SIZE}

Ranks == 1..MAX_RANK
Pages == 0..(MAX_PAGES - 1)

\* Arguments tried for the rank parameters: the valid ranks and both neighbours.
RankArgs == 0..(MAX_RANK + 1)

\* Arguments tried for the address parameters: null, a page below the pool,
\* every page of the largest pool, one page past it, and an unaligned byte.
AddrArgs(b) ==
    {NULL, b - PAGE_SIZE, b + 1}
        \cup {b + k * PAGE_SIZE : k \in 0..MAX_PAGES}

RECURSIVE Shl1(_)
\* 1 << n
Shl1(n) == IF n = 0 THEN 1 ELSE 2 * Shl1(n - 1)

VARIABLES
    base_addr,      \* static void *base_addr
    total_pages,    \* static int total_pages
    free_lists,     \* static free_block_t *free_lists[MAX_RANK + 1]
    page_metadata,  \* static page_meta_t page_metadata[MAX_PAGES]
    page_mem,       \* the free_block_t stored in the first bytes of each page
    allocated,      \* history: page -> rank of the block handed out there, 0 if none
    last,           \* history: the last call and how it ended
    spent           \* history: under Spec 0, or 1 + the calls made since a
                    \* release of an address that was not held was first
                    \* accepted; under SpecLong the calls made since init_page

vars == <<base_addr, total_pages, free_lists, page_metadata, page_mem,
          allocated, last, spent>>

\* The allocator's own state, as one record the operations transform.  ub is
\* raised by a store outside the region the caller gave to init_page: the
\* behaviour of the call is then undefined.
Cur ==
    [base_addr |-> base_addr, total_pages |-> total_pages,
     free_lists |-> free_lists, page_metadata |-> page_metadata,
     page_mem |-> page_mem, ub |-> FALSE]

----------------------------------------------------------------------------
\* Helpers

\* The page whose first bytes the pointer a designates (a dereference).
Deref(st, a) == (a - st.base_addr) \div PAGE_SIZE

\* get_page_index with > for >= in the test against total_pages: the page
\* just past the end of the pool is taken to be inside it.
get_page_index_past(st, p) ==
    IF p < st.base_addr THEN -1
    ELSE LET offset == p - st.base_addr IN
         IF offset % PAGE_SIZE # 0 THEN -1
         ELSE LET page_idx == offset \div PAGE_SIZE IN
              IF page_idx > st.total_pages THEN -1 ELSE page_idx

get_page_index(st, p) ==
    IF p < st.base_addr THEN -1
    ELSE LET offset == p - st.base_addr IN
         IF offset % PAGE_SIZE # 0 THEN -1
         ELSE LET page_idx == offset \div PAGE_SIZE IN
              IF page_idx >= st.total_pages THEN -1 ELSE page_idx

get_page_addr(st, page_idx) == st.base_addr + page_idx * PAGE_SIZE

\* page_idx ^ block_size, block_size a single bit
get_buddy_index(page_idx, rank) ==
    LET block_size == Shl1(rank - 1) IN
    IF (page_idx \div block_size) % 2 = 1
    THEN page_idx - block_size
    ELSE page_idx + block_size

is_aligned(page_idx, rank) ==
    LET block_size == Shl1(rank - 1) IN (page_idx % block_size) = 0

\* block->next = free_lists[rank]; block->prev = NULL;
\* if (free_lists[rank] != NULL) free_lists[rank]->prev = block;
\* free_lists[rank] = block;  then the two metadata stores.
push_front(st, page_idx, rank) ==
    LET block == get_page_addr(st, page_idx)
        head  == st.free_lists[rank]
        m1    == [st.page_mem EXCEPT ![page_idx] = [next |-> head, prev |-> NULL]]
        m2    == IF head # NULL
                 THEN [m1 EXCEPT ![Deref(st, head)].prev = block]
                 ELSE m1
    IN IF page_idx \notin 0..(st.total_pages - 1)
       THEN [st EXCEPT !.ub = TRUE]
       ELSE [st EXCEPT !.page_mem = m2,
                       !.free_lists[rank] = block,
                       !.page_metadata[page_idx] = [rank |-> rank, is_free |-> 1]]

----------------------------------------------------------------------------
\* init_page

RECURSIVE init_find_rank_strict(_, _, _)
\* init_find_rank with >= for > in the test against total_pages: a block
\* that ends exactly at the end of the pool is taken not to fit.
init_find_rank_strict(rank, current_page, total) ==
    IF rank > 0 /\ (current_page + Shl1(rank - 1) >= total
                    \/ ~is_aligned(current_page, rank))
    THEN init_find_rank_strict(rank - 1, current_page, total)
    ELSE rank

RECURSIVE init_find_rank(_, _, _)
\* the inner while of init_page: the largest rank that fits at current_page
init_find_rank(rank, current_page, total) ==
    IF rank > 0 /\ (current_page + Shl1(rank - 1) > total
                    \/ ~is_aligned(current_page, rank))
    THEN init_find_rank(rank - 1, current_page, total)
    ELSE rank

RECURSIVE init_walk(_, _)
\* the outer while of init_page
init_walk(st, current_page) ==
    IF current_page < st.total_pages
    THEN LET rank == init_find_rank(MAX_RANK, current_page, st.total_pages) IN
         IF rank = 0 THEN st
         ELSE init_walk(push_front(st, current_page, rank),
                        current_page + Shl1(rank - 1))
    ELSE st

init_page(st, p, pgcount) ==
    LET s0 == [st EXCEPT
                 !.base_addr = p,
                 !.total_pages = pgcount,
                 !.free_lists = [i \in 0..MAX_RANK |-> NULL],
                 !.page_metadata = [i \in Pages |->
                     IF i < pgcount THEN [rank |-> 0, is_free |-> 0]
                     ELSE st.page_metadata[i]]]
    IN [st |-> init_walk(s0, 0), err |-> "OK", val |-> 0]

----------------------------------------------------------------------------
\* alloc_pages

RECURSIVE alloc_scan(_, _)
\* while (current_rank <= MAX_RANK && free_lists[current_rank] == NULL) current_rank++;
alloc_scan(st, current_rank) ==
    IF current_rank <= MAX_RANK /\ st.free_lists[current_rank] = NULL
    THEN alloc_scan(st, current_rank + 1)
    ELSE current_rank

\* alloc_pop without the store to free_lists[current_rank]: the block stays
\* at the head of its list.
alloc_pop_keep(st, current_rank) ==
    LET block == st.free_lists[current_rank]
        nxt   == st.page_mem[Deref(st, block)].next
    IN [st EXCEPT !.page_mem = IF nxt # NULL
                               THEN [@ EXCEPT ![Deref(st, nxt)].prev = NULL]
                               ELSE @]

\* free_lists[current_rank] = block->next; if (block->next) block->next->prev = NULL;
alloc_pop(st, current_rank) ==
    LET block == st.free_lists[current_rank]
        nxt   == st.page_mem[Deref(st, block)].next
    IN [st EXCEPT !.free_lists[current_rank] = nxt,
                  !.page_mem = IF nxt # NULL
                               THEN [@ EXCEPT ![Deref(st, nxt)].prev = NULL]
                               ELSE @]

RECURSIVE alloc_split(_, _, _, _)
\* while (current_rank > rank) { current_rank--; push the right half }
alloc_split(st, page_idx, current_rank, rank) ==
    IF current_rank > rank
    THEN LET cr        == current_rank - 1
             buddy_idx == page_idx + Shl1(cr - 1)
         IN alloc_split(push_front(st, buddy_idx, cr), page_idx, cr, rank)
    ELSE st

alloc_pages(st, rank) ==
    IF rank < 1 \/ rank > MAX_RANK
    THEN [st |-> st, err |-> "EINVAL", val |-> 0]
    ELSE LET current_rank == alloc_scan(st, rank) IN
         IF current_rank > MAX_RANK
         THEN [st |-> st, err |-> "ENOSPC", val |-> 0]
         ELSE LET block    == st.free_lists[current_rank]
                  s1       == alloc_pop(st, current_rank)
                  page_idx == get_page_index(s1, block)
                  s2       == [s1 EXCEPT !.page_metadata[page_idx].is_free = 0]
                  s3       == alloc_split(s2, page_idx, current_rank, rank)
                  s4       == [s3 EXCEPT !.page_metadata[page_idx].rank = rank]
              IN IF s4.ub
                 THEN [st |-> st, err |-> "UB", val |-> 0]
                 ELSE [st |-> s4, err |-> "OK", val |-> block]

----------------------------------------------------------------------------
\* return_pages

remove_from_free_list(st, page_idx, rank) ==
    LET blk == st.page_mem[page_idx]
        s1  == IF blk.prev # NULL
               THEN [st EXCEPT !.page_mem[Deref(st, blk.prev)].next = blk.next]
               ELSE [st EXCEPT !.free_lists[rank] = blk.next]
        \* block->next and block->prev are read again after the first store
        b2  == s1.page_mem[page_idx]
    IN IF b2.next # NULL
       THEN [s1 EXCEPT !.page_mem[Deref(s1, b2.next)].prev = b2.prev]
       ELSE s1

\* the validation of return_pages: the errno it fails with, or "OK"
return_check(st, p) ==
    IF p = NULL THEN "EINVAL"
    ELSE LET page_idx == get_page_index(st, p) IN
         IF page_idx < 0 THEN "EINVAL"
         ELSE LET rank == st.page_metadata[page_idx].rank IN
              IF rank = 0 \/ st.page_metadata[page_idx].is_free # 0
              THEN "EINVAL"
              ELSE "OK"

RECURSIVE return_merge_short(_, _, _)
\* return_merge with rank < MAX_RANK - 1 for its loop test: two buddies of
\* rank MAX_RANK - 1 are left apart.
return_merge_short(st, page_idx, rank) ==
    IF rank < MAX_RANK - 1
    THEN LET buddy_idx == get_buddy_index(page_idx, rank) IN
         IF buddy_idx < 0 \/ buddy_idx >= st.total_pages
         THEN [st |-> st, page_idx |-> page_idx, rank |-> rank]
         ELSE IF st.page_metadata[buddy_idx].is_free = 0
                 \/ st.page_metadata[buddy_idx].rank # rank
         THEN [st |-> st, page_idx |-> page_idx, rank |-> rank]
         ELSE LET s1 == remove_from_free_list(st, buddy_idx, rank)
                  s2 == [s1 EXCEPT !.page_metadata[buddy_idx].is_free = 0]
              IN return_merge_short(s2,
                              IF page_idx > buddy_idx THEN buddy_idx ELSE page_idx,
                              rank + 1)
    ELSE [st |-> st, page_idx |-> page_idx, rank |-> rank]

RECURSIVE return_merge(_, _, _)
\* while (rank < MAX_RANK) { ... }: the state, page_idx and rank it ends with
return_merge(st, page_idx, rank) ==
    IF rank < MAX_RANK
    THEN LET buddy_idx == get_buddy_index(page_idx, rank) IN
         IF buddy_idx < 0 \/ buddy_idx >= st.total_pages
         THEN [st |-> st, page_idx |-> page_idx, rank |-> rank]
         ELSE IF st.page_metadata[buddy_idx].is_free = 0
                 \/ st.page_metadata[buddy_idx].rank # rank
         THEN [st |-> st, page_idx |-> page_idx, rank |-> rank]
         ELSE LET s1 == remove_from_free_list(st, buddy_idx, rank)
                  s2 == [s1 EXCEPT !.page_metadata[buddy_idx].is_free = 0]
              IN return_merge(s2,
                              IF page_idx > buddy_idx THEN buddy_idx ELSE page_idx,
                              rank + 1)
    ELSE [st |-> st, page_idx |-> page_idx, rank |-> rank]

\* return_pages clearing is_free of the page before it looks at the metadata:
\* a rejected call then leaves a free head page unmarked.
return_pages_dirty(st, p) ==
    IF return_check(st, p) # "OK"
    THEN [st |-> IF p # NULL /\ get_page_index(st, p) >= 0
                 THEN [st EXCEPT !.page_metadata[get_page_index(st, p)].is_free = 0]
                 ELSE st,
          err |-> "EINVAL", val |-> 0]
    ELSE LET page_idx == get_page_index(st, p)
             rank     == st.page_metadata[page_idx].rank
             m        == return_merge(st, page_idx, rank)
             s1       == push_front(m.st, m.page_idx, m.rank)
         IN IF s1.ub
            THEN [st |-> st, err |-> "UB", val |-> 0]
            ELSE [st |-> s1, err |-> "OK", val |-> 0]

return_pages(st, p) ==
    IF return_check(st, p) # "OK"
    THEN [st |-> st, err |-> "EINVAL", val |-> 0]
    ELSE LET page_idx == get_page_index(st, p)
             rank     == st.page_metadata[page_idx].rank
             m        == return_merge(st, page_idx, rank)
             s1       == push_front(m.st, m.page_idx, m.rank)
         IN IF s1.ub
            THEN [st |-> st, err |-> "UB", val |-> 0]
            ELSE [st |-> s1, err |-> "OK", val |-> 0]

----------------------------------------------------------------------------
\* queries

RECURSIVE query_scan(_, _, _)
\* for (rank = MAX_RANK; rank >= 1; rank--) of query_ranks
query_scan(st, page_idx, rank) ==
    IF rank >= 1
    THEN IF ~is_aligned(page_idx, rank)
         THEN query_scan(st, page_idx, rank - 1)
         ELSE IF page_idx + Shl1(rank - 1) > st.total_pages
         THEN query_scan(st, page_idx, rank - 1)
         ELSE IF st.page_metadata[page_idx].is_free # 0
                 /\ st.page_metadata[page_idx].rank = rank
         THEN rank
         ELSE query_scan(st, page_idx, rank - 1)
    ELSE 1

query_ranks(st, p) ==
    LET page_idx == get_page_index(st, p) IN
    IF page_idx < 0 THEN [st |-> st, err |-> "EINVAL", val |-> 0]
    ELSE IF st.page_metadata[page_idx].is_free = 0
            /\ st.page_metadata[page_idx].rank > 0
    THEN [st |-> st, err |-> "OK", val |-> st.page_metadata[page_idx].rank]
    ELSE [st |-> st, err |-> "OK", val |-> query_scan(st, page_idx, MAX_RANK)]

RECURSIVE list_walk(_, _, _)
\* the pages met by following next from curr, at most fuel of them
list_walk(st, curr, fuel) ==
    IF curr = NULL \/ fuel = 0 THEN <<>>
    ELSE <<Deref(st, curr)>> \o list_walk(st, st.page_mem[Deref(st, curr)].next, fuel - 1)

\* A walk that meets more nodes than there are pages is in a cycle.
list_ends(st, rank) == Len(list_walk(st, st.free_lists[rank], MAX_PAGES + 1)) <= MAX_PAGES

\* while (curr != NULL) { count++; curr = curr->next; }  It does not return
\* on a cyclic list: err is then "HANG".
query_page_counts(st, rank) ==
    IF rank < 1 \/ rank > MAX_RANK
    THEN [st |-> st, err |-> "EINVAL", val |-> 0]
    ELSE IF list_ends(st, rank)
    THEN [st |-> st, err |-> "OK",
          val |-> Len(list_walk(st, st.free_lists[rank], MAX_PAGES + 1))]
    ELSE [st |-> st, err |-> "HANG", val |-> 0]

----------------------------------------------------------------------------
\* The program: the static initial values, then init_page once, then any
\* sequence of calls with any arguments.

\* What query_page_counts would answer for every rank; -1 where it would not return.
Counts(st) ==
    [r \in Ranks |->
        LET q == query_page_counts(st, r) IN IF q.err = "OK" THEN q.val ELSE -1]

Call(op, res) == [op |-> op, err |-> res.err]

Install(st) ==
    /\ base_addr' = st.base_addr
    /\ total_pages' = st.total_pages
    /\ free_lists' = st.free_lists
    /\ page_metadata' = st.page_metadata
    /\ page_mem' = st.page_mem

Init ==
    /\ base_addr = NULL
    /\ total_pages = 0
    /\ free_lists = [i \in 0..MAX_RANK |-> NULL]
    /\ page_metadata = [i \in Pages |-> [rank |-> 0, is_free |-> 0]]
    /\ page_mem = [i \in Pages |-> [next |-> NULL, prev |-> NULL]]
    /\ allocated = [i \in Pages |-> 0]
    /\ last = [op |-> "boot", err |-> "OK"]
    /\ spent = 0

\* The pool is set up once; a call that did not return, or whose behaviour
\* was undefined, is the end of the run.
Serving ==
    /\ last.op # "boot"
    /\ last.err \notin {"HANG", "UB"}
    /\ spent <= MaxAftermath

Tick == spent' = IF spent = 0 THEN 0 ELSE spent + 1

InitPage ==
    /\ last.op = "boot"
    /\ \E p \in Bases, pgcount \in 0..MAX_PAGES :
          LET res == init_page(Cur, p, pgcount) IN
          /\ Install(res.st)
          /\ allocated' = [i \in Pages |-> 0]
          /\ last' = Call("init_page", res)
          /\ UNCHANGED spent

\* One call of alloc_pages, with any rank.
AllocCall ==
    \E rank \in RankArgs :
        LET res == alloc_pages(Cur, rank) IN
        /\ Install(res.st)
        /\ allocated' = IF res.err = "OK"
                        THEN [allocated EXCEPT ![Deref(Cur, res.val)] = rank]
                        ELSE allocated
        /\ last' = Call("alloc_pages", res)

\* One call of return_pages(p); stray tells whether the call accepted an
\* address the caller did not hold.  ReturnCall: the same with any address.
ReturnWith(p, stray) ==
    LET res  == return_pages(Cur, p)
        idx  == get_page_index(Cur, p)
        held == idx >= 0 /\ allocated[idx] # 0
    IN
    /\ stray = (res.err # "EINVAL" /\ ~held)
    /\ Install(res.st)
    /\ allocated' = IF res.err = "OK"
                    THEN [allocated EXCEPT ![idx] = 0]
                    ELSE allocated
    /\ last' = Call("return_pages", res)

ReturnCall(stray) == \E p \in AddrArgs(base_addr) : ReturnWith(p, stray)

AllocPages ==
    /\ Serving
    /\ AllocCall
    /\ Tick

ReturnPages ==
    /\ Serving
    /\ \E stray \in BOOLEAN :
          /\ ReturnCall(stray)
          /\ spent' = IF spent = 0 THEN (IF stray THEN 1 ELSE 0) ELSE spent + 1

QueryRanks ==
    /\ Serving
    /\ \E p \in AddrArgs(base_addr) :
          LET res == query_ranks(Cur, p) IN
          /\ Install(res.st)
          /\ UNCHANGED allocated
          /\ Tick
          /\ last' = Call("query_ranks", res)

QueryPageCounts ==
    /\ Serving
    /\ \E rank \in RankArgs :
          LET res == query_page_counts(Cur, rank) IN
          /\ Install(res.st)
          /\ UNCHANGED allocated
          /\ Tick
          /\ last' = Call("query_page_counts", res)

Next ==
    \/ InitPage
    \/ AllocPages
    \/ ReturnPages
    \/ QueryRanks
    \/ QueryPageCounts

Spec == Init /\ [][Next]_vars

\* The same program driven only through alloc_pages and return_pages, every
\* run followed for MaxCalls calls whatever the caller releases.
Busy ==
    /\ last.op # "boot"
    /\ last.err \notin {"HANG", "UB"}
    /\ spent < MaxCalls

LongAllocPages ==
    /\ Busy
    /\ AllocCall
    /\ spent' = spent + 1

LongReturnPages ==
    /\ Busy
    /\ \E stray \in BOOLEAN : ReturnCall(stray)
    /\ spent' = spent + 1

NextLong ==
    \/ InitPage
    \/ LongAllocPages
    \/ LongReturnPages

SpecLong == Init /\ [][NextLong]_vars

\* The same program under a caller that keeps the contract of return_pages:
\* it releases only addresses alloc_pages returned and it has not released.
ValidReturnPages ==
    /\ Serving
    /\ \E p \in {get_page_addr(Cur, i) : i \in {q \in Pages : allocated[q] # 0}} :
          \E stray \in BOOLEAN : ReturnWith(p, stray)
    /\ UNCHANGED spent

NextValid ==
    \/ InitPage
    \/ AllocPages
    \/ ValidReturnPages
    \/ QueryRanks
    \/ QueryPageCounts

SpecValid == Init /\ [][NextValid]_vars

----------------------------------------------------------------------------
\* Vocabulary of the properties

\* The pages on free list r, head first.
FreeSeq(st, r) == list_walk(st, st.free_lists[r], MAX_PAGES + 1)

\* The pages of the block of rank r that starts at page p.
BlockPages(p, r) == p..(p + Shl1(r - 1) - 1)

\* Every entry of every free list: <<rank, position, head page>>.
FreeEntries(st) ==
    UNION {{<<r, i, FreeSeq(st, r)[i]>> : i \in 1..Len(FreeSeq(st, r))} : r \in Ranks}

\* The blocks handed out by alloc_pages and not given back: <<head page, rank>>.
HeldBlocks == {<<p, allocated[p]>> : p \in {q \in Pages : allocated[q] # 0}}

\* The addresses of the pages of the pool.
PoolAddrs(st) == {get_page_addr(st, i) : i \in 0..(st.total_pages - 1)}

\* The addresses the caller holds.
HeldAddrs == {get_page_addr(Cur, b[1]) : b \in HeldBlocks}

Initialised == last.op # "boot"

RECURSIVE SumPages(_)
\* The pages in a set of ranks tagged to keep equal ranks apart: sum of 2^(r-1).
SumPages(S) ==
    IF S = {} THEN 0
    ELSE LET x == CHOOSE y \in S : TRUE IN Shl1(x[1] - 1) + SumPages(S \ {x})

\* How many blocks, free or held, cover page pg.
Coverage(pg) ==
    Cardinality({e \in FreeEntries(Cur) : pg \in BlockPages(e[3], e[1])})
    + Cardinality({b \in HeldBlocks : pg \in BlockPages(b[1], b[2])})

----------------------------------------------------------------------------
\* C1: after init_page and any sequence of calls with any arguments, every
\* page of the pool is covered by exactly one block, free or allocated, and
\* the sizes of the free blocks and of the allocated blocks add up to
\* total_pages.
C1_Partition ==
    Initialised =>
        /\ \A pg \in 0..(total_pages - 1) : Coverage(pg) = 1
        /\ SumPages(FreeEntries(Cur))
             + SumPages({<<b[2], b[1]>> : b \in HeldBlocks}) = total_pages

\* C2: in every reachable state and for every address x the caller holds, a
\* successful return_pages(x) followed at once by return_pages(x) fails the
\* second time with -EINVAL and the second call changes nothing.
C2_DoubleRelease ==
    \A x \in HeldAddrs :
        LET first == return_pages(Cur, x) IN
        first.err = "OK" =>
            LET second == return_pages(first.st, x) IN
            second.err = "EINVAL" /\ second.st = first.st

\* C3: return_pages fails with -EINVAL on every page-aligned address of the
\* pool that is not the head page of a block the caller holds.
C3_RejectNotHeld ==
    \A a \in PoolAddrs(Cur) \ HeldAddrs : return_pages(Cur, a).err = "EINVAL"

\* C4: a call of alloc_pages, return_pages, query_ranks or query_page_counts
\* that returns -EINVAL or -ENOSPC leaves the free lists, the links, the
\* metadata table, the base address and total_pages as they were.
C4_ErrorAtomic ==
    [][last'.err \in {"EINVAL", "ENOSPC"} =>
          UNCHANGED <<base_addr, total_pages, free_lists, page_metadata, page_mem>>]_vars

\* A rejected release in a pool that has both held and free blocks.
C4_Witness ==
    /\ last.op = "return_pages" /\ last.err = "EINVAL"
    /\ HeldBlocks # {}
    /\ FreeEntries(Cur) # {}

\* Page pg heads a block on free list r.
OnList(st, pg, r) == \E i \in 1..Len(FreeSeq(st, r)) : FreeSeq(st, r)[i] = pg

\* C5: after init_page and after every later operation no two buddies of the
\* same rank r < MAX_RANK are both free blocks inside the pool.
C5_Maximality ==
    Initialised =>
        \A r \in 1..(MAX_RANK - 1), pg \in 0..(total_pages - 1) :
            LET b == get_buddy_index(pg, r) IN
            ~ /\ OnList(Cur, pg, r)
              /\ OnList(Cur, b, r)
              /\ pg + Shl1(r - 1) <= total_pages
              /\ b + Shl1(r - 1) <= total_pages

\* C6: in every reachable state and for every rank r whose alloc_pages(r)
\* succeeds with address a, return_pages(a) called at once succeeds and
\* query_page_counts answers for every rank what it answered before the alloc.
C6_RoundTrip ==
    \A r \in Ranks :
        LET a == alloc_pages(Cur, r) IN
        a.err = "OK" =>
            LET b == return_pages(a.st, a.val) IN
            b.err = "OK" /\ Counts(b.st) = Counts(Cur)

\* C7: alloc_pages(rank) returns -EINVAL iff rank is outside 1..MAX_RANK; for
\* a rank inside it returns -ENOSPC iff the free lists rank..MAX_RANK are all
\* empty, and otherwise the address of a page of the pool.
C7_AllocOutcome ==
    \A rank \in RankArgs :
        LET res == alloc_pages(Cur, rank) IN
        /\ res.err = "EINVAL" <=> rank \notin Ranks
        /\ rank \in Ranks =>
              /\ res.err = "ENOSPC" <=> \A k \in rank..MAX_RANK : free_lists[k] = NULL
              /\ res.err # "ENOSPC" => res.err = "OK" /\ res.val \in PoolAddrs(Cur)

\* C8: a successful alloc_pages(rank) pops the head p of the lowest non-empty
\* free list rr >= rank, returns the address of p, and puts the right half
\* p + 2^(k-1) in front of list k for every k in rank..rr-1; the count of
\* list rr drops by one, those of lists rank..rr-1 grow by one, and the other
\* lists are as before.
C8_SplitPolicy ==
    \A rank \in Ranks :
        LET res == alloc_pages(Cur, rank) IN
        res.err = "OK" =>
            LET rr == CHOOSE k \in rank..MAX_RANK :
                        /\ free_lists[k] # NULL
                        /\ \A j \in rank..(k - 1) : free_lists[j] = NULL
                pg == FreeSeq(Cur, rr)[1]
            IN /\ res.val = get_page_addr(Cur, pg)
               /\ \A k \in Ranks :
                    IF k = rr
                        THEN Counts(res.st)[k] = Counts(Cur)[k] - 1
                    ELSE IF k >= rank /\ k < rr
                        THEN /\ FreeSeq(res.st, k) = <<pg + Shl1(k - 1)>> \o FreeSeq(Cur, k)
                             /\ Counts(res.st)[k] = Counts(Cur)[k] + 1
                    ELSE /\ FreeSeq(res.st, k) = FreeSeq(Cur, k)
                         /\ Counts(res.st)[k] = Counts(Cur)[k]

\* The largest rank whose block fits, aligned, at page cur of a pool of n pages.
GreedyRank(cur, n) ==
    CHOOSE r \in Ranks :
        /\ cur % Shl1(r - 1) = 0 /\ cur + Shl1(r - 1) <= n
        /\ \A q \in Ranks : (cur % Shl1(q - 1) = 0 /\ cur + Shl1(q - 1) <= n) => q <= r

RECURSIVE Greedy(_, _)
\* The blocks <<page, rank>> of the greedy walk from page cur.
Greedy(cur, n) ==
    IF cur >= n THEN {}
    ELSE {<<cur, GreedyRank(cur, n)>>} \cup Greedy(cur + Shl1(GreedyRank(cur, n) - 1), n)

\* C9: init_page(B, n), 0 <= n <= MAX_PAGES, returns OK and the free lists
\* then hold exactly the blocks of the greedy largest-aligned-block walk over
\* [0, n), each once, which tile [0, n); every other list is empty.
C9_InitGreedy ==
    last.op = "init_page" =>
        /\ last.err = "OK"
        /\ {<<e[3], e[1]>> : e \in FreeEntries(Cur)} = Greedy(0, total_pages)
        /\ Cardinality(FreeEntries(Cur)) = Cardinality(Greedy(0, total_pages))
        /\ \A pg \in 0..(total_pages - 1) :
              Cardinality({e \in FreeEntries(Cur) : pg \in BlockPages(e[3], e[1])}) = 1
        /\ \A e \in FreeEntries(Cur) : e[3] + Shl1(e[1] - 1) <= total_pages

\* init_page on a pool of three pages: a rank-2 block and a rank-1 block.
C9_Witness ==
    /\ last.op = "init_page" /\ total_pages = 3
    /\ FreeSeq(Cur, 2) = <<0>> /\ FreeSeq(Cur, 1) = <<2>>

\* C10: in every reachable state every block on a free list and every block
\* the caller holds, of rank r, starts at a page p that is a multiple of
\* 2^(r-1) and has p + 2^(r-1) <= total_pages.
C10_AlignedInBounds ==
    /\ \A e \in FreeEntries(Cur) :
          e[3] % Shl1(e[1] - 1) = 0 /\ e[3] + Shl1(e[1] - 1) <= total_pages
    /\ \A b \in HeldBlocks :
          b[1] % Shl1(b[2] - 1) = 0 /\ b[1] + Shl1(b[2] - 1) <= total_pages

\* C11: in every reachable state each free block is on the free lists exactly
\* once: no page is twice on one list or on two lists, and a block on a free
\* list is not a block the caller holds.
C11_Uniqueness ==
    Initialised =>
        /\ \A e1, e2 \in FreeEntries(Cur) : e1[3] = e2[3] => e1 = e2
        /\ \A r \in Ranks : list_ends(Cur, r)
        /\ \A e \in FreeEntries(Cur) : allocated[e[3]] = 0

\* C12: query_ranks on the head page of a block returns the rank of the
\* block: the rank it was allocated with for an address the caller holds,
\* and r for the head of a block on free list r.
C12_QueryHead ==
    /\ \A b \in HeldBlocks :
          LET q == query_ranks(Cur, get_page_addr(Cur, b[1])) IN
          q.err = "OK" /\ q.val = b[2]
    /\ \A e \in FreeEntries(Cur) :
          LET q == query_ranks(Cur, get_page_addr(Cur, e[3])) IN
          q.err = "OK" /\ q.val = e[1]

\* The pages of the pool inside a block on a free list, other than its head.
FillerPages ==
    UNION {(BlockPages(e[3], e[1]) \ {e[3]}) \cap (0..(total_pages - 1)) :
             e \in FreeEntries(Cur)}

\* C13: query_ranks on a filler page of a free block returns 1, also when
\* the page was the head of a block earlier.
C13_QueryFiller ==
    \A pg \in FillerPages :
        LET q == query_ranks(Cur, get_page_addr(Cur, pg)) IN
        q.err = "OK" /\ q.val = 1

\* The addresses get_page_index does not map to a page of the pool.
OutsideAddrs ==
    {a \in AddrArgs(base_addr) :
        \/ a < base_addr
        \/ (a - base_addr) % PAGE_SIZE # 0
        \/ a >= base_addr + total_pages * PAGE_SIZE}

\* C14: return_pages and query_ranks return -EINVAL for every address below
\* the base of the pool, not a whole number of pages from it, or at or after
\* base + total_pages * PAGE_SIZE; return_pages also for the null address.
C14_RejectOutside ==
    Initialised =>
        /\ \A a \in OutsideAddrs :
              /\ return_pages(Cur, a).err = "EINVAL"
              /\ query_ranks(Cur, a).err = "EINVAL"
        /\ return_pages(Cur, NULL).err = "EINVAL"

\* query_ranks has just rejected an address, in a pool smaller than the
\* largest, some of whose pages are held: the page past the end,
\* base + total_pages * PAGE_SIZE, is among the addresses tried.
C14_Witness ==
    /\ last.op = "query_ranks" /\ last.err = "EINVAL"
    /\ total_pages \in 1..(MAX_PAGES - 1)
    /\ HeldBlocks # {}

\* C15: in every reachable state, query_page_counts and query_ranks with any
\* argument return and leave the allocator as it was, a second call with the
\* same argument answers as the first, and query_page_counts(rank) is the
\* number of blocks on free list rank for rank in 1..MAX_RANK and -EINVAL for
\* any other rank.
C15_Queries ==
    /\ \A rank \in RankArgs :
          LET q == query_page_counts(Cur, rank) IN
          /\ q.st = Cur
          /\ query_page_counts(q.st, rank) = q
          /\ IF rank \in Ranks
             THEN /\ q.err = "OK"
                  /\ q.val = Cardinality({e \in FreeEntries(Cur) : e[1] = rank})
             ELSE q.err = "EINVAL"
    /\ \A a \in AddrArgs(base_addr) :
          LET q == query_ranks(Cur, a) IN
          /\ q.st = Cur
          /\ q.err \in {"OK", "EINVAL"}
          /\ query_ranks(q.st, a) = q

\* The pages in a sequence of pages.
Range(sq) == {sq[i] : i \in 1..Len(sq)}

\* new is old with some pages taken out and some pages that were not in old
\* put in front: what stays keeps its order, behind everything that is new.
KeepsOrder(old, new) ==
    LET kept == SelectSeq(old, LAMBDA x : x \in Range(new))
        k    == Len(new) - Len(kept)
    IN /\ k >= 0
       /\ SubSeq(new, k + 1, Len(new)) = kept
       /\ \A i \in 1..k : new[i] \notin Range(old)

\* alloc_pages(r) on a non-empty free list r returns the block at its head.
HeadFirst ==
    \A r \in Ranks :
        FreeSeq(Cur, r) # <<>> =>
            LET a == alloc_pages(Cur, r) IN
            a.err = "OK" /\ a.val = get_page_addr(Cur, FreeSeq(Cur, r)[1])

\* Held blocks x then y of one rank are released and neither release merges
\* (each adds one block to the list of that rank): the next two alloc_pages
\* of that rank return y, then x.
LastInFirstOut ==
    \A bx, by \in HeldBlocks :
        (bx # by /\ bx[2] = by[2]) =>
            LET r  == bx[2]
                x  == get_page_addr(Cur, bx[1])
                y  == get_page_addr(Cur, by[1])
                s1 == return_pages(Cur, x)
                s2 == return_pages(s1.st, y)
                a1 == alloc_pages(s2.st, r)
                a2 == alloc_pages(a1.st, r)
            IN (/\ s1.err = "OK" /\ s2.err = "OK"
                /\ Counts(s1.st)[r] = Counts(Cur)[r] + 1
                /\ Counts(s2.st)[r] = Counts(s1.st)[r] + 1)
               => (a1.err = "OK" /\ a1.val = y /\ a2.err = "OK" /\ a2.val = x)

\* A call of alloc_pages or return_pages, with any argument, leaves the
\* blocks that stay on a list in their order and puts the blocks it pushes
\* in front of them.
PushesInFront ==
    \A r \in Ranks :
        /\ \A rank \in RankArgs :
              KeepsOrder(FreeSeq(Cur, r), FreeSeq(alloc_pages(Cur, rank).st, r))
        /\ \A a \in AddrArgs(base_addr) :
              KeepsOrder(FreeSeq(Cur, r), FreeSeq(return_pages(Cur, a).st, r))

\* C16: every free list is in the order of its pushes, newest first: a call
\* leaves the blocks that stay on a list in their order and puts the blocks
\* it pushes in front of them; alloc_pages(r) on a non-empty list r returns
\* the block at its head; and blocks x then y released without a merge come
\* back as y, then x.
C16_LIFO == PushesInFront /\ HeadFirst /\ LastInFirstOut

\* C17: under a caller that releases only blocks it holds, each once,
\* whenever no block is held query_page_counts answers for every rank what
\* it answers right after init_page(base_addr, total_pages).
C17_FullCoalescing ==
    (Initialised /\ HeldBlocks = {}) =>
        Counts(Cur) = Counts(init_page(Cur, base_addr, total_pages).st)

\* The last held block of a pool of three pages or more has just been
\* released.
C17_Witness ==
    /\ last.op = "return_pages" /\ last.err = "OK"
    /\ HeldBlocks = {}
    /\ total_pages >= 3

\* C18: in every reachable state, for every page b of the pool and rank r,
\* page_metadata[b] is {rank r, is_free 1} iff b is the head page of a block
\* on free list r; and the head page of every held block has is_free 0 and
\* the rank it was allocated with.
C18_MetadataAgrees ==
    /\ \A b \in 0..(total_pages - 1) : \A r \in Ranks :
          (page_metadata[b].is_free = 1 /\ page_metadata[b].rank = r)
              <=> OnList(Cur, b, r)
    /\ \A h \in HeldBlocks :
          page_metadata[h[1]] = [rank |-> h[2], is_free |-> 0]

\* C19: under a caller that releases only blocks it holds, each once, the
\* page ranges of two held blocks never meet, no page of a held block lies
\* inside a block on a free list, and return_pages of every held address
\* returns OK.
C19_NoDoubleAllocation ==
    /\ \A h1, h2 \in HeldBlocks :
          h1 # h2 => BlockPages(h1[1], h1[2]) \cap BlockPages(h2[1], h2[2]) = {}
    /\ \A h \in HeldBlocks : \A e \in FreeEntries(Cur) :
          BlockPages(h[1], h[2]) \cap BlockPages(e[3], e[1]) = {}
    /\ \A x \in HeldAddrs : return_pages(Cur, x).err = "OK"

\* Two blocks are held and another is free, after a release and after an
\* allocation that had to split.
C19_Witness ==
    /\ Cardinality(HeldBlocks) >= 2
    /\ FreeEntries(Cur) # {}
    /\ last.op = "alloc_pages" /\ last.err = "OK"
    /\ \E b \in 0..(total_pages - 1) :
          page_metadata[b].rank # 0 /\ page_metadata[b].is_free = 0 /\ allocated[b] = 0

\* The links of free list r: the head has no prev, every other node is the
\* next of its prev, every node with a successor is the prev of its next,
\* and following next ends.
LinksAgree(st, r) ==
    LET sq == FreeSeq(st, r) IN
    /\ list_ends(st, r)
    /\ sq # <<>> => st.page_mem[sq[1]].prev = NULL
    /\ \A i \in 2..Len(sq) :
          LET prv == st.page_mem[sq[i]].prev IN
          /\ prv # NULL
          /\ get_page_index(st, prv) >= 0
          /\ st.page_mem[Deref(st, prv)].next = get_page_addr(st, sq[i])
    /\ \A i \in 1..(Len(sq) - 1) :
          st.page_mem[sq[i + 1]].prev = get_page_addr(st, sq[i])

\* remove_from_free_list(b, r) for a block b on list r takes b, and only b,
\* off list r and leaves every other list as it was.
RemovesExactly(st) ==
    \A e \in FreeEntries(st) :
        LET s1 == remove_from_free_list(st, e[3], e[1]) IN
        /\ FreeSeq(s1, e[1]) = SelectSeq(FreeSeq(st, e[1]), LAMBDA x : x # e[3])
        /\ Len(FreeSeq(s1, e[1])) = Len(FreeSeq(st, e[1])) - 1
        /\ \A r \in Ranks \ {e[1]} : FreeSeq(s1, r) = FreeSeq(st, r)

\* C20: in every reachable state every free list is a well-formed doubly
\* linked list (head with prev = NULL, x.prev.next = x, x.next.prev = x, no
\* cycle), and remove_from_free_list(b, r) removes exactly block b from
\* list r, leaving the order of the rest and all other lists unchanged.
C20_ListIntegrity ==
    /\ \A r \in Ranks : LinksAgree(Cur, r)
    /\ RemovesExactly(Cur)

====
